---------------------------- MODULE Spec2Model ----------------------------
(*************************************************************************)
(* Model of update_db.py: the nodeinfo crawler.                          *)
(*                                                                       *)
(* One run of main(): load the database file, get the node set, probe    *)
(* every node through a thread pool (each probe forks a child process    *)
(* that performs the GET under a heap limit and hands the response back  *)
(* over a multiprocessing.Queue), merge the outcomes into the in-memory  *)
(* database and write the file.                                          *)
(*                                                                       *)
(* Text is modelled as a sequence of one-character strings.              *)
(* Sizes are counted in units of the pipe buffer of the queue (64 KiB).  *)
(* Time is counted in clock ticks.                                       *)
(*************************************************************************)
EXTENDS Integers, Sequences, FiniteSets, TLC

(*************************************************************************)
(* Bounds of the model.                                                  *)
(*************************************************************************)
\* node identifiers are 1..MaxNodes
MaxNodes == 2
\* the texts given to fix_json and json.loads have up to MaxLen characters
MaxLen == 4
\* a crawl taken for its pool alone has up to PoolNodes nodes
PoolNodes == 3

(*************************************************************************)
(* Program constants.                                                    *)
(*************************************************************************)
\* REQUEST_TIMEOUT = 10 seconds; one clock tick of the model is 10 seconds
REQUEST_TIMEOUT == 1
\* MAX_HEAP_SIZE = 10*1024*1024 bytes = 160 units of 64 KiB
MAX_HEAP_SIZE == 160
\* capacity of the pipe under multiprocessing.Queue(), the unit of size
PipeCapacity == 1
\* multiprocessing.dummy.Pool(100); the model runs a pool of two threads
PoolWidth == 2
\* pool.map cuts the iterable into about 4 chunks per worker: chunks of one
\* task up to 4 * 100 nodes, of more tasks beyond
ChunkFactor == 4

(*************************************************************************)
(* JSON Repair: fix_json and its two regular expressions.                *)
(*************************************************************************)
Quote == "\""

\* \s of the regular expressions
Whitespace == {" "}

\* [\\}\\]] of _trailing_comma_re
Closers == {"}", "]"}

\* [a-zA-Z0-9"] of _missing_colon_re
AlnumOrQuote == {"a", "1", Quote}

\* the index of the first character at or after i that is not in set cs
RECURSIVE SkipWhile(_, _, _)
SkipWhile(s, i, cs) ==
    IF i <= Len(s) /\ s[i] \in cs THEN SkipWhile(s, i + 1, cs) ELSE i

\* a wrong _trailing_comma_re, without the +: it takes one comma, not a run
RECURSIVE TrailingCommaSubOne(_, _)
TrailingCommaSubOne(s, i) ==
    IF i > Len(s) THEN <<>>
    ELSE IF s[i] = ","
    THEN LET k == SkipWhile(s, i + 1, Whitespace)
         IN  IF k <= Len(s) /\ s[k] \in Closers
             THEN SubSeq(s, i + 1, k) \o TrailingCommaSubOne(s, k + 1)
             ELSE <<s[i]>> \o TrailingCommaSubOne(s, i + 1)
    ELSE <<s[i]>> \o TrailingCommaSubOne(s, i + 1)

\* _trailing_comma_re.sub(lambda m: m.group('delim'), s), from index i on:
\* ,+ is greedy, then \s* is greedy, then a closer must follow; a match is
\* replaced by its group delim (the whitespace and the closer)
RECURSIVE TrailingCommaSub(_, _)
TrailingCommaSub(s, i) ==
    IF i > Len(s) THEN <<>>
    ELSE IF s[i] = ","
    THEN LET j == SkipWhile(s, i, {","})
             k == SkipWhile(s, j, Whitespace)
         IN  IF k <= Len(s) /\ s[k] \in Closers
             THEN SubSeq(s, j, k) \o TrailingCommaSub(s, k + 1)
             ELSE <<s[i]>> \o TrailingCommaSub(s, i + 1)
    ELSE <<s[i]>> \o TrailingCommaSub(s, i + 1)

\* _missing_colon_re.sub(lambda m: '":' + m.group('char'), s), from index i on
RECURSIVE MissingColonSub(_, _)
MissingColonSub(s, i) ==
    IF i > Len(s) THEN <<>>
    ELSE IF s[i] = Quote
    THEN LET j == SkipWhile(s, i + 1, Whitespace)
         IN  IF j > i + 1 /\ j <= Len(s) /\ s[j] \in AlnumOrQuote
             THEN <<Quote, ":", s[j]>> \o MissingColonSub(s, j + 1)
             ELSE <<s[i]>> \o MissingColonSub(s, i + 1)
    ELSE <<s[i]>> \o MissingColonSub(s, i + 1)

fix_json(s) == MissingColonSub(TrailingCommaSub(s, 1), 1)

(*************************************************************************)
(* json.loads, on the alphabet of the model: objects, arrays, strings    *)
(* without escapes and numbers written with the digit 1.                 *)
(* Each Parse operator takes the index where the construct starts and    *)
(* returns the index after it, or 0 when the text does not parse.        *)
(*************************************************************************)
Digits == {"1"}

RECURSIVE ParseValue(_, _)
RECURSIVE ParseMembers(_, _)
RECURSIVE ParseElements(_, _)

\* a string: an opening quote, any characters but a quote, a closing quote
ParseString(s, i) ==
    IF i <= Len(s) /\ s[i] = Quote
    THEN LET j == SkipWhile(s, i + 1, {c \in {s[k] : k \in 1..Len(s)} : c # Quote})
         IN  IF j <= Len(s) THEN j + 1 ELSE 0
    ELSE 0

\* members of an object from index i on (after "{" or ","), up to and
\* including the closing brace
ParseMembers(s, i) ==
    LET k1 == ParseString(s, SkipWhile(s, i, Whitespace))
        c  == IF k1 = 0 THEN 0 ELSE SkipWhile(s, k1, Whitespace)
        v  == IF c = 0 \/ c > Len(s) \/ s[c] # ":" THEN 0
              ELSE ParseValue(s, SkipWhile(s, c + 1, Whitespace))
        e  == IF v = 0 THEN 0 ELSE SkipWhile(s, v, Whitespace)
    IN  IF e = 0 \/ e > Len(s) THEN 0
        ELSE IF s[e] = "}" THEN e + 1
        ELSE IF s[e] = "," THEN ParseMembers(s, e + 1)
        ELSE 0

\* elements of an array from index i on (after "[" or ","), up to and
\* including the closing bracket
ParseElements(s, i) ==
    LET v == ParseValue(s, SkipWhile(s, i, Whitespace))
        e == IF v = 0 THEN 0 ELSE SkipWhile(s, v, Whitespace)
    IN  IF e = 0 \/ e > Len(s) THEN 0
        ELSE IF s[e] = "]" THEN e + 1
        ELSE IF s[e] = "," THEN ParseElements(s, e + 1)
        ELSE 0

ParseValue(s, i) ==
    IF i > Len(s) THEN 0
    ELSE IF s[i] = Quote THEN ParseString(s, i)
    ELSE IF s[i] \in Digits THEN SkipWhile(s, i, Digits)
    ELSE IF s[i] = "{"
    THEN LET j == SkipWhile(s, i + 1, Whitespace)
         IN  IF j <= Len(s) /\ s[j] = "}" THEN j + 1 ELSE ParseMembers(s, i + 1)
    ELSE IF s[i] = "["
    THEN LET j == SkipWhile(s, i + 1, Whitespace)
         IN  IF j <= Len(s) /\ s[j] = "]" THEN j + 1 ELSE ParseElements(s, i + 1)
    ELSE 0

\* the text is one JSON value with optional whitespace around it
IsJson(s) ==
    LET v == ParseValue(s, SkipWhile(s, 1, Whitespace))
    IN  v # 0 /\ SkipWhile(s, v, Whitespace) = Len(s) + 1

\* the document a text parses to: the text without the whitespace that
\* json.loads skips (whitespace outside strings)
RECURSIVE Document(_, _, _)
Document(s, i, inString) ==
    IF i > Len(s) THEN <<>>
    ELSE IF s[i] = Quote THEN <<s[i]>> \o Document(s, i + 1, ~inString)
    ELSE IF s[i] \in Whitespace /\ ~inString THEN Document(s, i + 1, inString)
    ELSE <<s[i]>> \o Document(s, i + 1, inString)

\* None of Python
None == <<"None">>

\* json.loads(content), with the ValueError of line 89 turned into None
json_loads(s) == IF IsJson(s) THEN Document(s, 1, FALSE) ELSE None


(*************************************************************************)
(* Inputs: what an endpoint can answer.                                  *)
(*************************************************************************)
\* response.text of a nodeinfo.json that is valid JSON: {"a":1}
ValidBody == <<"{", Quote, "a", Quote, ":", "1", "}">>

\* response.text with a trailing comma: {"a":1,}
TrailingCommaBody == <<"{", Quote, "a", Quote, ":", "1", ",", "}">>

\* response.text of an error page: <a>
MarkupBody == <<"<", "a", ">">>

\* a response without a Content-Type header
NoHeader == <<>>

\* Content-Type headers, each as the sequence of its parts between ";"
JsonType == <<"application/json">>
HtmlType == <<"text/html", " charset=utf-8">>

\* the responses an endpoint can send: status, Content-Type, body text and
\* the size of the response in units of the pipe buffer
Responses ==
    { [status |-> 200, ctype |-> JsonType, text |-> ValidBody, size |-> 1],
      [status |-> 200, ctype |-> JsonType, text |-> TrailingCommaBody, size |-> 1],
      [status |-> 200, ctype |-> JsonType, text |-> MarkupBody, size |-> 1],
      [status |-> 200, ctype |-> HtmlType, text |-> ValidBody, size |-> 1],
      [status |-> 200, ctype |-> NoHeader, text |-> ValidBody, size |-> 1],
      [status |-> 404, ctype |-> HtmlType, text |-> MarkupBody, size |-> 1],
      [status |-> 200, ctype |-> JsonType, text |-> ValidBody, size |-> PipeCapacity + 1],
      [status |-> 200, ctype |-> JsonType, text |-> ValidBody, size |-> MAX_HEAP_SIZE + 1] }

\* the exceptions of requests.get that _request_worker catches
CaughtExceptions == {"ConnectionError", "ValueError", "Timeout"}

\* an exception of requests.get that _request_worker does not catch
UncaughtExceptions == {"TooManyRedirects"}

\* no response: the queue is empty, request returns None
NoResp == [status |-> 0, ctype |-> NoHeader, text |-> <<>>, size |-> 0]

\* everything requests.get(url) can do when it ends: raise exc, or return
\* response
Behaviours ==
    { [exc |-> e, response |-> NoResp] :
        e \in CaughtExceptions \cup UncaughtExceptions } \cup
    { [exc |-> "none", response |-> r] : r \in Responses }

\* an endpoint answers with a valid nodeinfo.json, if it answers
PoolBehaviours ==
    { [exc |-> "none",
       response |-> [status |-> 200, ctype |-> JsonType, text |-> ValidBody,
                     size |-> 1]] }

(*************************************************************************)
(* The database and its file.                                            *)
(*************************************************************************)
NodeIds == 1..(IF PoolNodes > MaxNodes THEN PoolNodes ELSE MaxNodes)

Workers == 1..PoolWidth


\* db = {}
EmptyDb == [n \in {} |-> None]

\* db[node] = {'last_crawl': ..., 'nodeinfo': ...}
Record(t, nodeinfo) == [last_crawl |-> t, nodeinfo |-> nodeinfo]

\* db after db[node] = rec
Assign(d, node, rec) ==
    [n \in DOMAIN d \cup {node} |-> IF n = node THEN rec ELSE d[n]]

\* not os.path.isfile(DB_FILE)
NoFile == [exists |-> FALSE, data |-> EmptyDb, complete |-> FALSE]

\* the file right after open(filename, 'a') created it
EmptyFile == [exists |-> TRUE, data |-> EmptyDb, complete |-> FALSE]

\* the database files an earlier run can have left: none, one cut short
\* by a failed write, an empty database, or a database with the record of
\* one node, made at time 0, with or without a document
PriorFiles ==
    {NoFile, EmptyFile} \cup
    { [exists |-> TRUE, data |-> d, complete |-> TRUE] :
        d \in UNION { [S -> {Record(0, None), Record(0, ValidBody)}] :
                        S \in {{}} \cup {{n} : n \in 1..MaxNodes} } }

(*************************************************************************)
(* State.                                                                *)
(*************************************************************************)
VARIABLES
    known,      \* the nodes the public databases of get_nodes list
    env,        \* the endpoints of this run: "any" or "nodeinfo"
    perWorker,  \* the chunks per worker that pool.map cuts the node set into
    pc,         \* where main() is
    killedAt,   \* where main() was when the process was killed
    input,      \* a call of get_nodeinfo alone: what request returned
    fixed,      \* fix_json(input.text), then fix_json of that
    returned,   \* what get_nodeinfo returned for input
    file,       \* the file DB_FILE
    file0,      \* the file DB_FILE as it was when the run started
    db,         \* db of main
    nodes,      \* nodes of main
    order,      \* the order in which pool.map iterates over nodes
    nextChunk,  \* index of the next chunk of tasks the pool hands out
    cur,        \* per pool thread: the chunk it runs and the position in it
    st,         \* per node: where its probe is
    child,      \* per node: state of the process started by request
    put,        \* per node: the item its child put on the queue
    ret,        \* per node: what request returned to get_nodeinfo
    elapsed,    \* per node: ticks spent in proc.join(REQUEST_TIMEOUT)
    out,        \* per node: the result of its task in the pool
    processed,  \* the manager list processed
    results,    \* results of main
    mi,         \* index of the merge loop in results
    now,        \* time.time()
    tMerge      \* time.time() when pool.map returned

\* the world around the run, which no step of the program changes
world == <<known, env, perWorker>>

\* the variables of a call of fix_json or get_nodeinfo taken alone
calls == <<input, fixed, returned>>

vars == <<world, calls, pc, killedAt, file, file0, db, nodes, order, nextChunk, cur,
          st, child, put, ret, elapsed, out, processed, results, mi, now,
          tMerge>>

\* the state of the process before main has done anything
Idle == [c |-> 0, i |-> 0]
NoOutcome == <<"NoOutcome">>
Raised == <<"KeyError">>

FreshMemory ==
    /\ killedAt = "nowhere"
    /\ fixed = <<>>
    /\ returned = NoOutcome
    /\ db = EmptyDb
    /\ nodes = {}
    /\ order = <<>>
    /\ nextChunk = 1
    /\ cur = [w \in Workers |-> Idle]
    /\ st = [n \in NodeIds |-> "pending"]
    /\ child = [n \in NodeIds |-> "none"]
    /\ put = [n \in NodeIds |-> NoResp]
    /\ ret = [n \in NodeIds |-> NoResp]
    /\ elapsed = [n \in NodeIds |-> 0]
    /\ out = [n \in NodeIds |-> NoOutcome]
    /\ processed = <<>>
    /\ results = <<>>
    /\ mi = 1
    /\ tMerge = 0

Init ==
    /\ known = 1..MaxNodes
    /\ env = "any"
    /\ perWorker = ChunkFactor
    /\ input = NoResp
    /\ pc = "load"
    /\ file \in PriorFiles
    /\ file0 = file
    /\ now = 1
    /\ FreshMemory

(*************************************************************************)
(* Node Prober: get_nodeinfo after request(url) returned response.       *)
(*************************************************************************)
\* response.ok
Ok(response) == response.status < 400

\* the media types get_nodeinfo does not try to parse
MarkupTypes == {"text/html", "application/xhtml+xml", "application/xml"}

\* get_nodeinfo from line 79 on: None, the decoded document, or the
\* KeyError of response.headers['Content-Type'] when there is no such header
get_nodeinfo(response) ==
    IF response = NoResp \/ ~Ok(response) THEN None
    ELSE IF response.ctype = NoHeader THEN Raised
    ELSE IF Head(response.ctype) \in MarkupTypes THEN None
    ELSE json_loads(fix_json(response.text))

\* get_nodeinfo for each value request can return, computed once
Nodeinfo == [response \in Responses \cup {NoResp} |-> get_nodeinfo(response)]

(*************************************************************************)
(* Crawl Orchestrator: pool.map(predicate, nodes).                       *)
(*************************************************************************)
\* the orders in which a set can be iterated
Orders(S) ==
    { f \in [1..Cardinality(S) -> S] :
        \A i, j \in 1..Cardinality(S) : f[i] = f[j] => i = j }

\* chunksize of pool.map for an iterable of n tasks
ChunkSize(n) ==
    IF n = 0 THEN 0
    ELSE LET q == n \div (PoolWidth * perWorker)
             extra == n % (PoolWidth * perWorker)
         IN  IF extra # 0 THEN q + 1 ELSE q

\* the number of chunks pool.map puts on the task queue
NumChunks ==
    IF Len(order) = 0 THEN 0
    ELSE (Len(order) + ChunkSize(Len(order)) - 1) \div ChunkSize(Len(order))

\* chunk c of the task queue: the nodes one pool thread probes in a row
Chunk(c) ==
    LET cs == ChunkSize(Len(order))
        last == IF c * cs < Len(order) THEN c * cs ELSE Len(order)
    IN  SubSeq(order, (c - 1) * cs + 1, last)

\* the results of the chunks from chunk c on, one after the other
RECURSIVE ChunkResults(_)
ChunkResults(c) ==
    IF c > NumChunks THEN <<>>
    ELSE [k \in 1..Len(Chunk(c)) |-> <<Chunk(c)[k], out[Chunk(c)[k]]>>]
         \o ChunkResults(c + 1)

\* the node pool thread w is probing
Node(w) == Chunk(cur[w].c)[cur[w].i]

\* main is still running
Running == {"load", "get_nodes", "map", "merge", "write_open", "write_dump"}

\* main, lines 113-117: load the database
Load ==
    /\ pc = "load"
    /\ IF file.exists /\ ~file.complete
       THEN pc' = "aborted" /\ db' = db
       ELSE /\ pc' = "get_nodes"
            /\ db' = IF file.exists THEN file.data ELSE EmptyDb
    /\ UNCHANGED <<world, calls, killedAt, file, file0, nodes, order, nextChunk, cur, st, child, put,
                   ret, elapsed, out, processed, results, mi, now, tMerge>>

\* a wrong main: it removes the database file before the crawl, not in
\* write_db
GetNodesAfterUnlink ==
    /\ pc = "get_nodes"
    /\ \E N \in SUBSET known : \E o \in Orders(N) :
          /\ nodes' = N
          /\ order' = o
    /\ pc' = "map"
    /\ file' = IF file.exists THEN NoFile ELSE file
    /\ UNCHANGED <<world, calls, killedAt, file0, db, nextChunk, cur, st, child, put,
                   ret, elapsed, out, processed, results, mi, now, tMerge>>

\* main, lines 119-124: get_nodes() returns a set, pool.map starts on it
GetNodes ==
    /\ pc = "get_nodes"
    /\ \E N \in SUBSET known : \E o \in Orders(N) :
          /\ nodes' = N
          /\ order' = o
    /\ pc' = "map"
    /\ UNCHANGED <<world, calls, killedAt, file, file0, db, nextChunk, cur, st, child, put, ret,
                   elapsed, out, processed, results, mi, now, tMerge>>

\* a wrong pool: a thread takes the next chunk while it still runs one
TakeTaskWhileBusy(w) ==
    /\ pc = "map"
    /\ nextChunk <= NumChunks
    /\ LET n == Chunk(nextChunk)[1]
       IN  /\ st' = [st EXCEPT ![n] = "join"]
           /\ child' = [child EXCEPT ![n] = "running"]
           /\ elapsed' = [elapsed EXCEPT ![n] = 0]
    /\ cur' = [cur EXCEPT ![w] = [c |-> nextChunk, i |-> 1]]
    /\ nextChunk' = nextChunk + 1
    /\ UNCHANGED <<world, calls, killedAt, pc, file, file0, db, nodes, order,
                   put, ret, out, processed, results, mi, now, tMerge>>

\* a free pool thread takes the next chunk and calls get_nodeinfo_worker on
\* its first node, which gets to request(url): lines 60-64, the child is
\* started and the thread waits in proc.join(REQUEST_TIMEOUT)
TakeTask(w) ==
    /\ pc = "map"
    /\ cur[w] = Idle
    /\ nextChunk <= NumChunks
    /\ LET n == Chunk(nextChunk)[1]
       IN  /\ st' = [st EXCEPT ![n] = "join"]
           /\ child' = [child EXCEPT ![n] = "running"]
           /\ elapsed' = [elapsed EXCEPT ![n] = 0]
    /\ cur' = [cur EXCEPT ![w] = [c |-> nextChunk, i |-> 1]]
    /\ nextChunk' = nextChunk + 1
    /\ UNCHANGED <<world, calls, killedAt, pc, file, file0, db, nodes, order, put, ret, out,
                   processed, results, mi, now, tMerge>>

\* a wrong setrlimit: the child has no heap limit
ExceedsHeapNever(response) == FALSE

\* resource.setrlimit(RLIMIT_DATA, (MAX_HEAP_SIZE, MAX_HEAP_SIZE)): the child
\* cannot hold a response over the limit
ExceedsHeap(response) == response.size > MAX_HEAP_SIZE

\* _request_worker in the child of node n, when requests.get ends with b:
\* a caught exception returns, any other exception kills the child, as does
\* the MemoryError of a response over the heap limit; a response is put on
\* the queue, and the child exits once the queue's feeder thread has written
\* it to the pipe, which it cannot do while the pipe is full
ChildGet(n, b) ==
    /\ pc = "map"
    /\ st[n] = "join"
    /\ child[n] = "running"
    /\ IF b.exc \in CaughtExceptions
       THEN child' = [child EXCEPT ![n] = "exited"] /\ put' = put
       ELSE IF b.exc \in UncaughtExceptions
       THEN child' = [child EXCEPT ![n] = "crashed"] /\ put' = put
       ELSE IF ExceedsHeap(b.response)
       THEN child' = [child EXCEPT ![n] = "memory_error"] /\ put' = put
       ELSE /\ put' = [put EXCEPT ![n] = b.response]
            /\ child' = [child EXCEPT ![n] =
                            IF b.response.size <= PipeCapacity
                            THEN "exited" ELSE "blocked"]
    /\ UNCHANGED <<world, calls, killedAt, pc, file, file0, db, nodes, order, nextChunk, cur, st, ret,
                   elapsed, out, processed, results, mi, now, tMerge>>

\* proc.is_alive(), as request sees it at line 65
IsAlive(n) == child[n] \in {"running", "blocked"}

\* the child of node n is a process that has not ended: it runs, waits for
\* its queue to be read, or has been sent SIGTERM by proc.terminate() and
\* has not died of it yet
Live(n) == child[n] \in {"running", "blocked", "terminated"}

\* a child that proc.terminate() sent SIGTERM to dies; request does not wait
\* for that (no proc.join() after line 66)
ChildDies(n) ==
    /\ child[n] = "terminated"
    /\ child' = [child EXCEPT ![n] = "none"]
    /\ UNCHANGED <<world, calls, killedAt, pc, file, file0, db, nodes, order,
                   nextChunk, cur, st, put, ret, elapsed, out, processed,
                   results, mi, now, tMerge>>

\* queue.empty()
QueueEmpty(n) == put[n] = NoResp

\* time passes while pool threads wait in proc.join(REQUEST_TIMEOUT); a join
\* whose timeout has come returns before more time passes
Tick ==
    /\ pc = "map"
    /\ \E n \in NodeIds : st[n] = "join"
    /\ \A n \in NodeIds : st[n] = "join" => elapsed[n] < REQUEST_TIMEOUT
    /\ now' = now + 1
    /\ elapsed' = [n \in NodeIds |->
                     IF st[n] = "join" THEN elapsed[n] + 1 ELSE elapsed[n]]
    /\ UNCHANGED <<world, calls, killedAt, pc, file, file0, db, nodes, order, nextChunk, cur, st,
                   child, put, ret, out, processed, results, mi, tMerge>>

\* request, lines 64-71 when the child has ended: proc.join returns, the
\* child is not alive, the queue decides
JoinReturn(w) ==
    /\ pc = "map"
    /\ cur[w] # Idle
    /\ st[Node(w)] = "join"
    /\ ~IsAlive(Node(w))
    /\ ret' = [ret EXCEPT ![Node(w)] =
                 IF QueueEmpty(Node(w)) THEN NoResp ELSE put[Node(w)]]
    /\ st' = [st EXCEPT ![Node(w)] = "got"]
    /\ elapsed' = [elapsed EXCEPT ![Node(w)] = 0]
    /\ UNCHANGED <<world, calls, killedAt, pc, file, file0, db, nodes, order, nextChunk, cur, child,
                   put, out, processed, results, mi, now, tMerge>>

\* a wrong request: proc.join() without a timeout, which never gives up
JoinWithoutTimeout(w) ==
    /\ FALSE
    /\ UNCHANGED vars

\* a wrong request: after proc.terminate() it goes on to hand out what the
\* queue holds
JoinTimeoutFallThrough(w) ==
    /\ pc = "map"
    /\ cur[w] # Idle
    /\ st[Node(w)] = "join"
    /\ IsAlive(Node(w))
    /\ elapsed[Node(w)] = REQUEST_TIMEOUT
    /\ child' = [child EXCEPT ![Node(w)] = "terminated"]
    /\ ret' = [ret EXCEPT ![Node(w)] = put[Node(w)]]
    /\ st' = [st EXCEPT ![Node(w)] = "got"]
    /\ elapsed' = [elapsed EXCEPT ![Node(w)] = 0]
    /\ UNCHANGED <<world, calls, killedAt, pc, file, file0, db, nodes, order, nextChunk, cur, put,
                   out, processed, results, mi, now, tMerge>>

\* request, lines 64-67 when the timeout of proc.join has come and the child
\* is alive: proc.terminate(), return None
JoinTimeout(w) ==
    /\ pc = "map"
    /\ cur[w] # Idle
    /\ st[Node(w)] = "join"
    /\ IsAlive(Node(w))
    /\ elapsed[Node(w)] = REQUEST_TIMEOUT
    /\ child' = [child EXCEPT ![Node(w)] = "terminated"]
    /\ ret' = [ret EXCEPT ![Node(w)] = NoResp]
    /\ st' = [st EXCEPT ![Node(w)] = "got"]
    /\ elapsed' = [elapsed EXCEPT ![Node(w)] = 0]
    /\ UNCHANGED <<world, calls, killedAt, pc, file, file0, db, nodes, order, nextChunk, cur, put,
                   out, processed, results, mi, now, tMerge>>

\* get_nodeinfo from line 79 on and get_nodeinfo_worker, lines 95-103, in
\* pool thread w. A KeyError ends the chunk of the thread; otherwise the
\* node is appended to processed, the outcome is the result of the task and
\* the thread goes on to the next node of its chunk, if any
GetNodeinfo(w) ==
    /\ pc = "map"
    /\ cur[w] # Idle
    /\ st[Node(w)] = "got"
    /\ LET n == Node(w)
           nodeinfo == Nodeinfo[ret[n]]
           more == nodeinfo # Raised /\ cur[w].i < Len(Chunk(cur[w].c))
           m == IF more THEN Chunk(cur[w].c)[cur[w].i + 1] ELSE n
       IN  /\ out' = [out EXCEPT ![n] = nodeinfo]
           /\ processed' = IF nodeinfo = Raised THEN processed
                           ELSE Append(processed, n)
           /\ cur' = [cur EXCEPT ![w] =
                        IF more THEN [c |-> cur[w].c, i |-> cur[w].i + 1] ELSE Idle]
           /\ st' = [k \in NodeIds |->
                       IF k = n THEN (IF nodeinfo = Raised THEN "raised" ELSE "done")
                       ELSE IF more /\ k = m THEN "join"
                       ELSE st[k]]
           /\ child' = [k \in NodeIds |->
                          IF k = n
                          THEN (IF child[n] = "terminated" THEN child[n] ELSE "none")
                          ELSE IF more /\ k = m THEN "running"
                          ELSE child[k]]
           /\ put' = [put EXCEPT ![n] = NoResp]
           /\ ret' = [ret EXCEPT ![n] = NoResp]
    /\ UNCHANGED <<world, calls, killedAt, pc, file, file0, db, nodes, order, nextChunk, elapsed,
                   results, mi, now, tMerge>>

\* a wrong pool.map: it returns once every chunk is handed out, without
\* waiting for the pool threads
MapReturnNoBarrier ==
    /\ pc = "map"
    /\ nextChunk > NumChunks
    /\ IF \E n \in nodes : out[n] = Raised
       THEN pc' = "aborted" /\ results' = results
       ELSE /\ pc' = "merge"
            /\ results' = ChunkResults(1)
    /\ tMerge' = now
    /\ processed' = <<>>
    /\ child' = [n \in NodeIds |-> "none"]
    /\ UNCHANGED <<world, calls, killedAt, file, file0, db, nodes, order,
                   nextChunk, cur, st, put, ret, elapsed, out, mi, now>>

\* pool.map returns once every chunk has ended: with the list of the tasks'
\* results in the order of the iterable, or by raising the exception of a
\* task, which ends main. Leaving the with blocks shuts the manager of the
\* list processed down; main starts no child from here on, and the children
\* that have not died yet are not followed any further
MapReturn ==
    /\ pc = "map"
    /\ nextChunk > NumChunks
    /\ \A w \in Workers : cur[w] = Idle
    /\ IF \E n \in nodes : out[n] = Raised
       THEN pc' = "aborted" /\ results' = results
       ELSE /\ pc' = "merge"
            /\ results' = ChunkResults(1)
    /\ tMerge' = now
    /\ processed' = <<>>
    /\ child' = [n \in NodeIds |-> "none"]
    /\ UNCHANGED <<world, calls, killedAt, file, file0, db, nodes, order,
                   nextChunk, cur, st, put, ret, elapsed, out, mi, now>>

(*************************************************************************)
(* Database Merger: the loop of main and write_db.                       *)
(*************************************************************************)
\* a wrong merge: the record is stored under the key of another node
MergeNodeOtherKey(dt) ==
    /\ pc = "merge"
    /\ mi <= Len(results)
    /\ now' = now + dt
    /\ db' = Assign(db, (results[mi][1] % MaxNodes) + 1,
                    Record(now', results[mi][2]))
    /\ mi' = mi + 1
    /\ UNCHANGED <<world, calls, killedAt, pc, file, file0, nodes, order, nextChunk,
                   cur, st, child, put, ret, elapsed, out, processed, results,
                   tMerge>>

\* main, lines 126-130: one iteration of the loop; time may pass before
\* time.time() is read
MergeNode(dt) ==
    /\ pc = "merge"
    /\ mi <= Len(results)
    /\ now' = now + dt
    /\ db' = Assign(db, results[mi][1], Record(now', results[mi][2]))
    /\ mi' = mi + 1
    /\ UNCHANGED <<world, calls, killedAt, pc, file, file0, nodes, order, nextChunk, cur, st, child,
                   put, ret, elapsed, out, processed, results, tMerge>>

\* write_db, lines 107-108, called when the loop has ended
WriteUnlink ==
    /\ pc = "merge"
    /\ mi > Len(results)
    /\ file' = IF file.exists THEN NoFile ELSE file
    /\ pc' = "write_open"
    /\ UNCHANGED <<world, calls, killedAt, file0, db, nodes, order, nextChunk, cur, st, child, put,
                   ret, elapsed, out, processed, results, mi, now, tMerge>>

\* write_db, line 109: open(filename, 'a')
WriteOpen ==
    /\ pc = "write_open"
    /\ file' = IF file.exists THEN file ELSE EmptyFile
    /\ pc' = "write_dump"
    /\ UNCHANGED <<world, calls, killedAt, file0, db, nodes, order, nextChunk, cur, st, child, put,
                   ret, elapsed, out, processed, results, mi, now, tMerge>>

\* the smallest key of db that is not in the file yet (sort_keys=True)
NextKey ==
    CHOOSE k \in DOMAIN db \ DOMAIN file.data :
        \A j \in DOMAIN db \ DOMAIN file.data : k <= j

\* write_db, line 110: json.dump writes the records in the order of their
\* keys; after the last one the file is closed
WriteDump ==
    /\ pc = "write_dump"
    /\ IF DOMAIN db \ DOMAIN file.data = {}
       THEN /\ file' = [file EXCEPT !.complete = TRUE]
            /\ pc' = "done"
       ELSE /\ file' = [file EXCEPT !.data = Assign(@, NextKey, db[NextKey])]
            /\ pc' = pc
    /\ UNCHANGED <<world, calls, killedAt, file0, db, nodes, order, nextChunk, cur, st, child, put,
                   ret, elapsed, out, processed, results, mi, now, tMerge>>

\* write_db, lines 109-110: open or a write raises OSError, which ends main
WriteFail ==
    /\ pc \in {"write_open", "write_dump"}
    /\ pc' = "failed"
    /\ UNCHANGED <<world, calls, killedAt, file, file0, db, nodes, order, nextChunk, cur, st, child,
                   put, ret, elapsed, out, processed, results, mi, now, tMerge>>

\* the process is killed from outside: its memory is gone, the file stays
Kill ==
    /\ pc \in Running
    /\ pc' = "killed"
    /\ db' = EmptyDb
    /\ nodes' = {}
    /\ order' = <<>>
    /\ nextChunk' = 1
    /\ cur' = [w \in Workers |-> Idle]
    /\ st' = [n \in NodeIds |-> "pending"]
    /\ child' = [n \in NodeIds |-> "none"]
    /\ put' = [n \in NodeIds |-> NoResp]
    /\ ret' = [n \in NodeIds |-> NoResp]
    /\ elapsed' = [n \in NodeIds |-> 0]
    /\ out' = [n \in NodeIds |-> NoOutcome]
    /\ processed' = <<>>
    /\ results' = <<>>
    /\ mi' = 1
    /\ tMerge' = 0
    /\ killedAt' = pc
    /\ UNCHANGED <<world, calls, file, file0, now>>

\* what requests.get can do at the endpoints of this run
Endpoints ==
    IF env = "any" THEN Behaviours
    ELSE IF env = "nodeinfo" THEN PoolBehaviours
    ELSE {}

Next ==
    \/ Load
    \/ GetNodes
    \/ \E w \in Workers : TakeTask(w)
    \/ \E n \in NodeIds : \E b \in Endpoints : ChildGet(n, b)
    \/ Tick
    \/ \E w \in Workers : JoinReturn(w)
    \/ \E w \in Workers : JoinTimeout(w)
    \/ \E n \in NodeIds : ChildDies(n)
    \/ \E w \in Workers : GetNodeinfo(w)
    \/ MapReturn
    \/ \E dt \in 0..1 : MergeNode(dt)
    \/ WriteUnlink
    \/ WriteOpen
    \/ WriteDump
    \/ WriteFail
    \/ Kill

Spec == Init /\ [][Next]_vars

\* a step of the main thread
MainStep ==
    \/ Load
    \/ GetNodes
    \/ MapReturn
    \/ \E dt \in 0..1 : MergeNode(dt)
    \/ WriteUnlink
    \/ WriteOpen
    \/ WriteDump

\* a step of pool thread w
WorkerStep(w) ==
    \/ TakeTask(w)
    \/ JoinReturn(w)
    \/ JoinTimeout(w)
    \/ GetNodeinfo(w)

\* every thread that can take a step takes one, and time passes; an endpoint
\* need not answer, and nothing has to kill the process or make a write fail
Fairness ==
    /\ WF_vars(MainStep)
    /\ \A w \in Workers : WF_vars(WorkerStep(w))
    /\ WF_vars(Tick)

\* the first run: there is no database file yet
FirstRunInit ==
    /\ known = 1..MaxNodes
    /\ env = "any"
    /\ perWorker = ChunkFactor
    /\ input = NoResp
    /\ pc = "load"
    /\ file = NoFile
    /\ file0 = file
    /\ now = 1
    /\ FreshMemory

FairSpec == FirstRunInit /\ [][Next]_vars /\ Fairness

(*************************************************************************)
(* The pool taken alone: a first run over more nodes than pool threads,  *)
(* whose endpoints answer with a nodeinfo.json or do not answer.         *)
(*************************************************************************)
\* the node sets of the model are small: with ChunkFactor chunks per worker
\* they are cut into chunks of one task, as the node sets of up to 400 nodes
\* are; with one chunk per worker they are cut into chunks of more tasks, as
\* the larger node sets are
PoolInit ==
    /\ known = 1..PoolNodes
    /\ env = "nodeinfo"
    /\ perWorker \in {1, ChunkFactor}
    /\ input = NoResp
    /\ pc = "load"
    /\ file = NoFile
    /\ file0 = file
    /\ now = 1
    /\ FreshMemory

PoolSpec == PoolInit /\ [][Next]_vars

(*************************************************************************)
(* fix_json and get_nodeinfo taken alone: a call of each on one input.   *)
(*************************************************************************)
\* the characters of the texts: a comma, whitespace, brackets, a quote and
\* a digit
Alphabet == {",", " ", "[", "]", Quote, "1"}

\* the first example of the docstring's "errors caused by humans": {"a": 1,}
CommaBody == <<"{", Quote, "a", Quote, ":", " ", "1", ",", "}">>

\* the same with a run of commas: {"a": 1,,,}
CommasBody == <<"{", Quote, "a", Quote, ":", " ", "1", ",", ",", ",", "}">>

\* what both are meant to become: {"a": 1}
SpacedBody == <<"{", Quote, "a", Quote, ":", " ", "1", "}">>

\* a nodeinfo.json with an omitted colon: {"a" 1}
NoColonBody == <<"{", Quote, "a", Quote, " ", "1", "}">>

\* response.text: every text of up to MaxLen characters, and the examples
Texts ==
    UNION { [1..n -> Alphabet] : n \in 0..MaxLen } \cup
    {ValidBody, TrailingCommaBody, MarkupBody, CommaBody, CommasBody,
     SpacedBody, NoColonBody}

\* Content-Type: text/xml
XmlType == <<"text/xml">>

\* status and Content-Type of a response
Heads ==
    { <<200, JsonType>>, <<200, HtmlType>>, <<200, XmlType>>,
      <<200, NoHeader>>, <<404, HtmlType>> }

\* what request(url) can return to get_nodeinfo: None or a response
Inputs ==
    {NoResp} \cup
    { [status |-> h[1], ctype |-> h[2], text |-> t, size |-> 1] :
        h \in Heads, t \in Texts }

CallInit ==
    /\ known = {}
    /\ env = "none"
    /\ perWorker = ChunkFactor
    /\ input \in Inputs
    /\ pc = "call"
    /\ file = NoFile
    /\ file0 = file
    /\ now = 1
    /\ FreshMemory

\* the program state a call of fix_json or get_nodeinfo leaves alone
program == <<pc, killedAt, file, file0, db, nodes, order, nextChunk, cur, st,
             child, put, ret, elapsed, out, processed, results, mi, now,
             tMerge>>

\* fix_json(s), lines 23-28: on response.text, then on its own result
FixJson ==
    /\ pc = "call"
    /\ Len(fixed) < 2
    /\ fixed' = Append(fixed, fix_json(IF fixed = <<>> THEN input.text
                                       ELSE fixed[Len(fixed)]))
    /\ UNCHANGED <<world, input, returned, program>>

\* get_nodeinfo, lines 79-91, on what request returned
GetNodeinfoCall ==
    /\ pc = "call"
    /\ returned = NoOutcome
    /\ returned' = get_nodeinfo(input)
    /\ UNCHANGED <<world, input, fixed, program>>

CallNext == FixJson \/ GetNodeinfoCall

CallSpec == CallInit /\ [][CallNext]_vars

(*************************************************************************)
(* Properties.                                                           *)
(*************************************************************************)
\* main is past pool.map: it merges, writes, or has written or failed to
PostMap == {"merge", "write_open", "write_dump", "done", "failed"}

\* main has ended by itself: it returned, or an exception ended it
Ended == {"done", "failed", "aborted"}

\* the nodes of the pairs of results
ResultNodes == {results[k][1] : k \in 1..Len(results)}

\* C1: for every node set, once the crawl is over (pool.map has returned or
\* raised), results holds exactly one (node, outcome) pair per node of the
\* node set, no node twice and none left out
C1_EveryCrawlCollects ==
    pc \in PostMap \cup {"aborted"} =>
        /\ Len(results) = Cardinality(nodes)
        /\ ResultNodes = nodes

\* C1, for the crawls in which no task raises: once pool.map has returned,
\* results holds exactly one (node, outcome) pair per node of the node set
\* and every outcome is None or a document, whatever the probes did and in
\* whatever order they ended; while pool.map runs, processed lists the nodes
\* whose probe has returned, each once
C1_OneOutcomePerNode ==
    /\ pc \in PostMap =>
          /\ Len(results) = Cardinality(nodes)
          /\ ResultNodes = nodes
          /\ \A k \in 1..Len(results) : results[k][2] \notin {NoOutcome, Raised}
    /\ pc = "map" =>
          /\ \A i, j \in 1..Len(processed) : processed[i] = processed[j] => i = j
          /\ {processed[i] : i \in 1..Len(processed)} =
                {n \in nodes : st[n] = "done"}

\* a crawl of two nodes is collected, one probe failed and the other one
\* gave a document
C1_Collected ==
    /\ pc = "merge"
    /\ Len(results) = 2
    /\ \E j, k \in 1..2 : results[j][2] = None /\ results[k][2] = ValidBody

\* C2: whatever the endpoint of a node does, the probe of the node ends with
\* an outcome and the run is not aborted by it: no task raises, and main
\* only ends early when the database file could not be loaded
C2_NoProbeAbortsRun ==
    /\ \A n \in NodeIds : st[n] # "raised"
    /\ pc = "aborted" => (file0.exists /\ ~file0.complete)

\* C3: when the child has put a response on the queue, request returns that
\* response
C3_ResponseReturned ==
    \A n \in NodeIds : (st[n] = "got" /\ put[n] # NoResp) => ret[n] = put[n]

\* C4: a request whose child is still alive at the deadline terminates the
\* child and returns None, no sooner than the deadline; no request waits for
\* ever: the run ends, and no request is left waiting when it has ended
C4_RequestReturns ==
    /\ <>(pc \notin Running /\ \A n \in NodeIds : st[n] \notin {"join", "got"})
    /\ [][\A n \in NodeIds :
            (child[n] # "terminated" /\ child'[n] = "terminated") =>
                /\ elapsed[n] = REQUEST_TIMEOUT
                /\ st'[n] = "got"
                /\ ret'[n] = NoResp]_vars

\* C4 witness: the endpoint never answered, the deadline came, the child was
\* terminated and request returned None
C4_Witness ==
    \E n \in NodeIds :
        /\ st[n] = "got"
        /\ child[n] = "terminated"
        /\ put[n] = NoResp
        /\ ret[n] = NoResp

\* C5: when the child raised, died or was terminated at the deadline,
\* request returns None, whatever the cause
C5_FailureIsNone ==
    \A n \in NodeIds :
        (st[n] = "got" /\ (put[n] = NoResp
                           \/ child[n] \in {"crashed", "memory_error", "terminated"}))
            => ret[n] = NoResp

\* C5 witness: the child died of an exception it does not catch and request
\* returned None
C5_Witness ==
    \E n \in NodeIds :
        st[n] = "got" /\ child[n] = "crashed" /\ ret[n] = NoResp

\* C6: nothing over the heap limit is ever on the queue or returned to the
\* pool thread, and a child that died of the limit has put nothing on the
\* queue, so that request returns None
C6_MemoryCeiling ==
    \A n \in NodeIds :
        /\ put[n].size <= MAX_HEAP_SIZE
        /\ ret[n].size <= MAX_HEAP_SIZE
        /\ child[n] = "memory_error" => put[n] = NoResp
        /\ (child[n] = "memory_error" /\ st[n] = "got") => ret[n] = NoResp

\* C6 witness: the child died of a response over the heap limit, request
\* returned None and the run goes on
C6_Witness ==
    \E n \in NodeIds :
        /\ pc = "map"
        /\ st[n] = "got"
        /\ child[n] = "memory_error"
        /\ ret[n] = NoResp

\* the database as main loaded it
Loaded == IF file0.exists THEN file0.data ELSE EmptyDb

\* C7: while a probe is executing, db is what was loaded and the file is
\* what it was at the start; the merge and write_db only run once the probe
\* of every node has returned its outcome
C7_Barrier ==
    /\ (\E n \in NodeIds : st[n] \in {"join", "got"}) =>
          (db = Loaded /\ file = file0)
    /\ pc \in PostMap => \A n \in nodes : st[n] = "done"

\* C7 witness: the merge has changed db, and the probe of every node of a
\* node set of two had returned
C7_Witness ==
    /\ pc = "merge"
    /\ db # Loaded
    /\ Cardinality(nodes) = 2
    /\ \A n \in nodes : st[n] = "done"

\* C8: at every point the file holds the complete database of before the
\* run or the complete new database
C8_CrashSafe ==
    \/ file = file0
    \/ file.exists /\ file.complete /\ file.data = db

\* the merge loop of main has ended
Merged == (pc = "merge" /\ mi > Len(results)) \/ pc \in PostMap \ {"merge"}

\* C9: after a run, every node of the node set of the run has a record
\* with a last_crawl read during the run and the outcome of the run
C9_EveryRunMerges ==
    pc \in Ended =>
        \A n \in nodes :
            /\ n \in DOMAIN db
            /\ db[n].last_crawl > 0
            /\ db[n].nodeinfo = out[n]

\* C9, for the runs in which pool.map returns: after the merge, every node
\* of the node set has the record of its outcome of this run, whatever its
\* earlier record held, with a last_crawl read during the merge; a run that
\* ends has written these records
C9_MergeOverwrite ==
    /\ Merged =>
          \A k \in 1..Len(results) :
              /\ results[k][1] \in DOMAIN db
              /\ db[results[k][1]].nodeinfo = results[k][2]
              /\ db[results[k][1]].last_crawl >= tMerge
              /\ db[results[k][1]].last_crawl <= now
              /\ db[results[k][1]].last_crawl > 0
    /\ pc = "done" => (file.complete /\ file.data = db)

\* a node whose earlier record holds a document has no document in this
\* run, and the file written has null for it and a new last_crawl
C9_Overwritten ==
    \E n \in nodes :
        /\ pc = "done"
        /\ n \in DOMAIN Loaded
        /\ Loaded[n].nodeinfo = ValidBody
        /\ file.data[n].nodeinfo = None
        /\ file.data[n].last_crawl > Loaded[n].last_crawl

\* C10: after a run, the record of a node of the loaded database that is
\* not in the node set of the run is what it was, in db and in the file
C10_EveryRunKeeps ==
    pc \in Ended =>
        \A n \in DOMAIN Loaded \ nodes :
            /\ n \in DOMAIN db
            /\ db[n] = Loaded[n]
            /\ file.exists
            /\ n \in DOMAIN file.data
            /\ file.data[n] = Loaded[n]

\* C10, for the runs that get to the end of write_db: a record of the loaded
\* database whose node is not in the node set of the run is kept as it was,
\* in db all along and in the file the run has written; no record of the
\* loaded database is dropped
C10_Frame ==
    /\ pc \notin {"load", "killed"} =>
          \A n \in DOMAIN Loaded :
              /\ n \in DOMAIN db
              /\ n \notin nodes => db[n] = Loaded[n]
    /\ pc = "done" =>
          \A n \in DOMAIN Loaded :
              /\ n \in DOMAIN file.data
              /\ n \notin nodes => file.data[n] = Loaded[n]

\* a run over another node has ended, and the record of a node it did not
\* probe is in the file as before
C10_Kept ==
    \E n \in DOMAIN Loaded :
        /\ pc = "done"
        /\ nodes # {}
        /\ n \notin nodes
        /\ file.data[n] = Loaded[n]

\* C11, as stated: every key of the database after a run, in db and in the
\* file written, is a node of the node set of the run
C11_KeysFromNodeSet ==
    pc = "done" =>
        /\ DOMAIN db \subseteq nodes
        /\ DOMAIN file.data \subseteq nodes

\* C11, amended: every key of the database during and after a run, in db and
\* in the file, is a node of the node set of the run or a key of the
\* database that the run loaded
C11_KeysFromNodeSetOrLoaded ==
    pc # "killed" =>
        /\ DOMAIN db \subseteq nodes \cup DOMAIN Loaded
        /\ DOMAIN file.data \subseteq nodes \cup DOMAIN Loaded

\* C11 witness: a run over a node set has ended and the file written holds
\* a key of the node set and a key that is not in the node set
C11_Witness ==
    /\ pc = "done"
    /\ \E k \in DOMAIN file.data : k \in nodes
    /\ \E k \in DOMAIN file.data : k \notin nodes /\ k \in DOMAIN Loaded

\* main has not called write_db yet
BeforeWrite == {"load", "get_nodes", "map", "merge"}

\* C12: up to the call of write_db the file is what it was when the run
\* started, and so it is after the process was killed at any such point
C12_KillLeavesFile ==
    /\ pc \in BeforeWrite => file = file0
    /\ (pc = "killed" /\ killedAt \in BeforeWrite) => file = file0

\* C12 witness: the process was killed during pool.map and the database
\* file of before the run, which holds a record, is still there
C12_Witness ==
    /\ pc = "killed"
    /\ killedAt = "map"
    /\ file = file0
    /\ file.exists /\ file.complete
    /\ DOMAIN file.data # {}

\* C13: for a response whose Content-Type, without its parameters, is an
\* HTML, XHTML or XML media type, get_nodeinfo returns None, whatever the
\* body
C13_MarkupIsNone ==
    (/\ returned # NoOutcome
     /\ input # NoResp
     /\ input.ctype # NoHeader
     /\ Head(input.ctype) \in {"text/html", "application/xhtml+xml",
                               "application/xml", "text/xml"})
        => returned = None

\* C16: fix_json of the result of fix_json is that result
C16_Idempotent ==
    Len(fixed) = 2 => fixed[2] = fixed[1]

\* C17: fix_json returns a text unchanged when the text is valid JSON and no
\* comma in it is followed by optional whitespace and a closer (valid JSON
\* has a colon between every key and its value)
C17_RoundTrip ==
    (/\ fixed # <<>>
     /\ IsJson(input.text)
     /\ \A i \in 1..Len(input.text) :
           input.text[i] = "," =>
               LET k == SkipWhile(input.text, i + 1, Whitespace)
               IN  ~(k <= Len(input.text) /\ input.text[k] \in Closers))
        => fixed[1] = input.text

\* the commas of s that stand in a run of commas followed by optional
\* whitespace and a closer
TrailingCommas(s) ==
    { i \in 1..Len(s) :
        /\ s[i] = ","
        /\ LET k == SkipWhile(s, SkipWhile(s, i, {","}), Whitespace)
           IN  k <= Len(s) /\ s[k] \in Closers }

\* s without the characters at the indices of set D
Without(s, D) ==
    LET keep == (1..Len(s)) \ D
    IN  [j \in 1..Cardinality(keep) |->
            s[CHOOSE i \in keep : Cardinality({k \in keep : k <= i}) = j]]

\* C18: the first substitution of fix_json removes exactly the commas that
\* stand in a run of commas followed by optional whitespace and a closer,
\* and changes no other character; fix_json turns both {"a": 1,} and
\* {"a": 1,,,} into {"a": 1}
C18_TrailingCommaRemoval ==
    fixed # <<>> =>
        /\ TrailingCommaSub(input.text, 1) =
              Without(input.text, TrailingCommas(input.text))
        /\ input.text \in {CommaBody, CommasBody} => fixed[1] = SpacedBody

\* C18 witness: fix_json was given {"a": 1,,,} and returned {"a": 1}
C18_Witness ==
    /\ input # NoResp
    /\ input.text = CommasBody
    /\ fixed # <<>>
    /\ fixed[1] = SpacedBody

\* C19: get_nodeinfo returns the parsed document when request returned a
\* response that is ok, whose Content-Type is not one of the markup types
\* and whose body parses after fix_json, and None in every other case
C19_ProberOutcome ==
    returned # NoOutcome =>
        returned =
            IF /\ input # NoResp
               /\ Ok(input)
               /\ (input.ctype = NoHeader \/ Head(input.ctype) \notin MarkupTypes)
               /\ IsJson(fix_json(input.text))
            THEN Document(fix_json(input.text), 1, FALSE)
            ELSE None

\* the nodes whose probe is executing: get_nodeinfo_worker has been called
\* for the node and has not returned
Executing == {n \in NodeIds : st[n] \in {"join", "got"}}

\* C14: at every moment at most PoolWidth probes are executing, however
\* many nodes the node set has
C14_BoundedProbes == Cardinality(Executing) <= PoolWidth

\* C14 witness: the node set has more nodes than the pool has threads, every
\* thread is executing a probe and a node waits for a thread
C14_Witness ==
    /\ pc = "map"
    /\ Cardinality(nodes) > PoolWidth
    /\ Cardinality(Executing) = PoolWidth
    /\ nextChunk <= NumChunks
    /\ \E n \in nodes : st[n] = "pending"

\* C15: while a probe waits for its endpoint, a pool thread that is idle
\* and a node that is not probed yet do not wait for each other: the thread
\* can take the node
C15_NoHeadOfLine ==
    \A w \in Workers :
        (/\ pc = "map"
         /\ cur[w] = Idle
         /\ \E n \in nodes : st[n] = "join"
         /\ \E n \in nodes : st[n] = "pending")
            => nextChunk <= NumChunks

\* C20: at every moment at most PoolWidth child processes started by
\* request have not ended, the children that request terminated at the
\* deadline and returned from included
C20_BoundedChildren == Cardinality({n \in NodeIds : Live(n)}) <= PoolWidth

=============================================================================
